---- MODULE Spec2Model ----
(***************************************************************************)
(* Model of the serial link worker of BB_Control                           *)
(* (src/core/serial_worker.py, class SerialWorker) together with the       *)
(* caller thread that drives it (start, send_data, stop_serial, wait).     *)
(*                                                                         *)
(* The worker thread executes run() one statement at a time; the caller    *)
(* thread may run between any two of them, as CPython threads do.  The     *)
(* transport (a pyserial Serial object) is an external collaborator: each  *)
(* of its operations is modelled by the outcomes the handlers in run() and *)
(* stop_serial() distinguish.                                              *)
(***************************************************************************)
EXTENDS Naturals, Sequences, FiniteSets

\* -------------------------------------------------------------------------
\* Bounds of the model
\* -------------------------------------------------------------------------
MaxSends == 1     \* send_data calls issued by the caller thread
MaxRx == 1        \* polls that report pending inbound bytes
MaxStops == 1     \* stop_serial calls issued by the caller thread
MaxWorkers == 2   \* SerialWorker objects the main window creates
MaxCommands == 1  \* control-button commands the user requests

\* -------------------------------------------------------------------------
\* Text and bytes.  A text is a sequence of code points, a byte string a
\* sequence of values 0..255.
\* -------------------------------------------------------------------------
LF == 10

\* "INIT_CHECK"
INIT_CHECK == <<73, 78, 73, 84, 95, 67, 72, 69, 67, 75>>

\* the commands the caller sends, in this order and then over again:
\* "A1", "A0".  The worker never looks into a command, so which ones they
\* are does not change what it does.
CmdScript == << <<65, 49>>, <<65, 48>> >>

\* lines the device may deliver: b"\xff\xfe\n", b"OK\n", b" \n"
RxLines == { <<255, 254, 10>>, <<79, 75, 10>>, <<32, 10>> }

\* str.encode("utf-8") for code points below 2048
Utf8Char(cp) == IF cp < 128 THEN <<cp>>
                ELSE <<192 + (cp \div 64), 128 + (cp % 64)>>

RECURSIVE Utf8Encode(_)
Utf8Encode(s) == IF s = <<>> THEN <<>>
                 ELSE Utf8Char(Head(s)) \o Utf8Encode(Tail(s))

\* bytes.decode("utf-8") raises UnicodeDecodeError exactly when this is FALSE
RECURSIVE Utf8Valid(_)
Utf8Valid(b) ==
    IF b = <<>> THEN TRUE
    ELSE IF b[1] < 128 THEN Utf8Valid(Tail(b))
    ELSE IF b[1] >= 194 /\ b[1] <= 223
         THEN /\ Len(b) >= 2
              /\ b[2] >= 128 /\ b[2] <= 191
              /\ Utf8Valid(Tail(Tail(b)))
    ELSE FALSE

RECURSIVE Utf8Decode(_)
Utf8Decode(b) ==
    IF b = <<>> THEN <<>>
    ELSE IF b[1] < 128 THEN <<b[1]>> \o Utf8Decode(Tail(b))
    ELSE <<(b[1] - 192) * 64 + (b[2] - 128)>> \o Utf8Decode(Tail(Tail(b)))

IsSpace(cp) == cp \in {9, 10, 11, 12, 13, 32}

RECURSIVE LStrip(_)
LStrip(s) == IF s # <<>> /\ IsSpace(Head(s)) THEN LStrip(Tail(s)) ELSE s

RECURSIVE RStrip(_)
RStrip(s) == IF s # <<>> /\ IsSpace(s[Len(s)])
             THEN RStrip(SubSeq(s, 1, Len(s) - 1)) ELSE s

\* str.strip()
Strip(s) == RStrip(LStrip(s))

\* send_data: data.encode("utf-8") + b"\n"
Frame(data) == Utf8Encode(data) \o <<LF>>

\* -------------------------------------------------------------------------
\* Events (Qt signals emitted by the worker)
\* -------------------------------------------------------------------------
Status(connected, message) ==
    [sig |-> "connection_status", connected |-> connected, message |-> message]

Data(tag, arg) == [sig |-> "data_received", tag |-> tag, arg |-> arg]

Threads == {"caller", "worker"}

\* -------------------------------------------------------------------------
\* State
\* -------------------------------------------------------------------------
VARIABLES
    pc,            \* position of the worker thread in run()
    ser,           \* self.ser: "None" or "handle"
    is_open,       \* whether the Serial handle holds the port open
    running,       \* self.running
    send_queue,    \* self.send_queue
    raw_data,      \* run(): raw_data
    data_to_send,  \* run(): data_to_send
    exc,           \* exception propagating in the worker thread
    stop_pc,       \* position of each thread inside stop_serial()
    caller_exc,    \* exception raised into the caller thread
    events,        \* signals emitted so far, in order
    wire,          \* frames the transport accepted, in order
    enqueued,      \* history: frames appended to send_queue, in order
    hist           \* history: counters and flags used by the properties

\* State of the main window (src/ui/main_window.py) and of the worker
\* threads it creates, each seen from outside: what its run() has posted to
\* the GUI thread and whether the thread still runs.
VARIABLES
    worker_thread,     \* MainWindow.worker_thread: 0 for None, or a worker
    keep_alive_timer,  \* whether MainWindow.keep_alive_timer is active
    tab_connected,     \* SettingsTab.connected
    gui_pc,            \* GUI thread: "idle", or "wait" inside stop_connection
    thread_state,      \* per worker: how far its run() has got
    stop_requested,    \* per worker: stop_serial() was called on it
    posted,            \* connection_status signals queued for the GUI thread
    mw_hist            \* history used by the properties

mwvars == <<worker_thread, keep_alive_timer, tab_connected, gui_pc,
            thread_state, stop_requested, posted, mw_hist>>

\* -------------------------------------------------------------------------
\* State of the key map (src/core/keymap.py, class KeyMap).  A dict is a
\* sequence of entries in insertion order, a key a text.
\* -------------------------------------------------------------------------
VARIABLES
    map,       \* KeyMap.map
    key_call   \* the last update_key call: its arguments and what it raised

kmvars == <<map, key_call>>

Entry(command, key) == [command |-> command, key |-> key]

\* lines 7-22: W X S D A Q E Z C F R G T Y
DEFAULT_MAP ==
    << Entry("A1", <<87>>), Entry("A2", <<88>>), Entry("A0", <<83>>),
       Entry("A3", <<68>>), Entry("A4", <<65>>), Entry("A5", <<81>>),
       Entry("A6", <<69>>), Entry("A7", <<90>>), Entry("A8", <<67>>),
       Entry("A9", <<70>>), Entry("A10", <<82>>), Entry("A11", <<71>>),
       Entry("A12", <<84>>), Entry("A13", <<89>>) >>

\* KeyMap.__init__, lines 24-25: self.map = self.DEFAULT_MAP.copy()
KmInit ==
    /\ map = DEFAULT_MAP
    /\ key_call = [command |-> "", new_key |-> <<>>, raised |-> "none"]

wkvars == <<pc, ser, is_open, running, send_queue, raw_data, data_to_send,
            exc, stop_pc, caller_exc, events, wire, enqueued, hist>>

vars == <<pc, ser, is_open, running, send_queue, raw_data, data_to_send, exc,
          stop_pc, caller_exc, events, wire, enqueued, hist,
          worker_thread, keep_alive_timer, tab_connected, gui_pc,
          thread_state, stop_requested, posted, mw_hist,
          map, key_call>>

Workers == 1..MaxWorkers

\* the command code of a control button (keymap.py, line 8)
ButtonCommand == "A1"

\* MainWindow.__init__, lines 50-54: no worker, the timer not started
MwInit ==
    /\ worker_thread = 0
    /\ keep_alive_timer = FALSE
    /\ tab_connected = FALSE
    /\ gui_pc = "idle"
    /\ thread_state = [w \in Workers |-> "new"]
    /\ stop_requested = [w \in Workers |-> FALSE]
    /\ posted = <<>>
    /\ mw_hist = [ handledTrue |-> {},   \* workers whose connected event
                                         \* the window has handled
                   handledFalse |-> {},  \* same, for a disconnected event
                   pings |-> {},         \* kinds of PING enqueued so far
                   commands |-> 0,       \* button commands requested
                   queued |-> {},        \* workers send_command enqueued on
                   log |-> {} ]          \* codes of "Cannot send ..." errors

Emit(e) == events' = Append(events, e)

Init ==
    /\ pc = "idle"
    /\ ser = "None"
    /\ is_open = FALSE
    /\ running = TRUE
    /\ send_queue = <<>>
    /\ raw_data = <<>>
    /\ data_to_send = <<>>
    /\ exc = "none"
    /\ stop_pc = [t \in Threads |-> "none"]
    /\ caller_exc = "none"
    /\ events = <<>>
    /\ wire = <<>>
    /\ enqueued = <<>>
    /\ hist = [ sends |-> 0, stops |-> 0, rx |-> 0,
                open |-> "none",      \* outcome of serial.Serial(...)
                failed |-> "none",    \* first transport failure in the loop
                wireAtFail |-> 0,     \* Len(wire) when it happened
                ioAfterFail |-> FALSE,\* poll/read/write attempted after it
                io |-> {},            \* transport operations attempted
                closeErr |-> "none",  \* worst failure of a close() so far
                joined |-> FALSE ]    \* caller returned from wait() after stop
    /\ MwInit
    /\ KmInit

\* note a transport operation attempted by thread t on the Serial handle
NoteIO(h, t, op) ==
    [h EXCEPT !.io = @ \cup {<<t, op>>},
              !.ioAfterFail = @ \/ (h.failed # "none"
                                    /\ op \in {"poll", "read", "write"})]

\* note the first transport failure met in the I/O loop
NoteFail(h, kind) ==
    IF h.failed = "none"
    THEN [h EXCEPT !.failed = kind, !.wireAtFail = Len(wire)]
    ELSE h

\* note the outcome of a close(): "benign" for OSError "Bad file
\* descriptor", "other" for any other exception
NoteClose(h, o) ==
    [h EXCEPT !.closeErr = IF o = "ok" \/ @ = "other" THEN @
                           ELSE IF o = "OSError:Bad file descriptor"
                                THEN "benign" ELSE "other"]

\* -------------------------------------------------------------------------
\* Caller thread: start(), send_data(), wait()
\* -------------------------------------------------------------------------
CallerFree == stop_pc["caller"] = "none"

\* QThread.start(): the worker thread begins run()
Start ==
    /\ CallerFree
    /\ pc = "idle"
    /\ pc' = "open"
    /\ UNCHANGED <<ser, is_open, running, send_queue, raw_data, data_to_send,
                   exc, stop_pc, caller_exc, events, wire, enqueued, hist>>
    /\ UNCHANGED <<mwvars, kmvars>>

\* variant: the frame is put at the head of the queue
EnqueueFront(q, frame) == <<frame>> \o q

\* variant: an append that loses what was queued (a lost update)
EnqueueReplace(q, frame) == <<frame>>

\* list.append at the tail of the queue
Enqueue(q, frame) == Append(q, frame)

\* send_data(data), lines 92-97, called on the caller thread
SendData ==
    /\ CallerFree
    /\ hist.sends < MaxSends
    /\ LET data == CmdScript[(hist.sends % Len(CmdScript)) + 1]
       IN  /\ send_queue' = Enqueue(send_queue, Frame(data))
           /\ enqueued' = Append(enqueued, Frame(data))
    /\ hist' = [hist EXCEPT !.sends = @ + 1]
    /\ UNCHANGED <<pc, ser, is_open, running, raw_data, data_to_send, exc,
                   stop_pc, caller_exc, events, wire>>
    /\ UNCHANGED <<mwvars, kmvars>>

\* QThread.wait() after a stop_serial(): returns once run() has finished
Wait ==
    /\ CallerFree
    /\ hist.stops > 0
    /\ ~hist.joined
    /\ pc = "done"
    /\ hist' = [hist EXCEPT !.joined = TRUE]
    /\ UNCHANGED <<pc, ser, is_open, running, send_queue, raw_data,
                   data_to_send, exc, stop_pc, caller_exc, events, wire,
                   enqueued>>
    /\ UNCHANGED <<mwvars, kmvars>>

\* -------------------------------------------------------------------------
\* stop_serial(), lines 99-120, executed by thread t
\* -------------------------------------------------------------------------
\* thread t goes on to the statement `label` of stop_serial(); "return" and
\* "raise" leave the function.  On the worker thread the call is the one of
\* the finally clause (line 89): a return goes on to line 90, an exception
\* skips line 90 and ends run().
StopGoto(t, label) ==
    IF label \notin {"return", "raise"}
    THEN /\ stop_pc' = [stop_pc EXCEPT ![t] = label]
         /\ pc' = IF t = "worker" THEN "stop_serial" ELSE pc
         /\ UNCHANGED <<exc, caller_exc>>
    ELSE /\ stop_pc' = [stop_pc EXCEPT ![t] = "none"]
         /\ IF t = "worker"
            THEN /\ pc' = IF label = "return" THEN "emit_disconnected"
                         ELSE "done"
                 /\ exc' = IF label = "raise" THEN "OSError" ELSE exc
                 /\ UNCHANGED caller_exc
            ELSE /\ caller_exc' = IF label = "raise" THEN "OSError"
                                  ELSE caller_exc
                 /\ UNCHANGED <<pc, exc>>

\* variant: the early return of lines 103-104 is missing
StopGuardAlways(t) ==
    /\ stop_pc[t] = "none"
    /\ StopGoto(t, "flag")

\* the call, and line 103: if not self.running: return
StopGuard(t) ==
    /\ stop_pc[t] = "none"
    /\ StopGoto(t, IF running THEN "flag" ELSE "return")

\* stop_serial() called on the caller thread
CallStop ==
    /\ hist.stops < MaxStops
    /\ StopGuard("caller")
    /\ hist' = [hist EXCEPT !.stops = @ + 1]
    /\ UNCHANGED <<ser, is_open, running, send_queue, raw_data, data_to_send,
                   events, wire, enqueued>>
    /\ UNCHANGED <<mwvars, kmvars>>

\* line 89: finally: self.stop_serial()
Finally ==
    /\ pc = "finally"
    /\ StopGuard("worker")
    /\ UNCHANGED <<ser, is_open, running, send_queue, raw_data, data_to_send,
                   events, wire, enqueued, hist>>
    /\ UNCHANGED <<mwvars, kmvars>>

\* line 106: self.running = False
StopFlag(t) ==
    /\ stop_pc[t] = "flag"
    /\ running' = FALSE
    /\ StopGoto(t, "if_ser")
    /\ UNCHANGED <<ser, is_open, send_queue, raw_data, data_to_send, events,
                   wire, enqueued, hist>>
    /\ UNCHANGED <<mwvars, kmvars>>

\* variant: a stop without a handle is treated as an error
StopIfSerStrict(t) ==
    /\ stop_pc[t] = "if_ser"
    /\ StopGoto(t, IF ser = "None" THEN "raise" ELSE "close")
    /\ UNCHANGED <<ser, is_open, running, send_queue, raw_data, data_to_send,
                   events, wire, enqueued, hist>>
    /\ UNCHANGED <<mwvars, kmvars>>

\* line 109: if self.ser:
StopIfSer(t) ==
    /\ stop_pc[t] = "if_ser"
    /\ StopGoto(t, IF ser = "None" THEN "return" ELSE "close")
    /\ UNCHANGED <<ser, is_open, running, send_queue, raw_data, data_to_send,
                   events, wire, enqueued, hist>>
    /\ UNCHANGED <<mwvars, kmvars>>

\* outcomes of Serial.close() on a handle that holds the port
CloseOutcomes == {"ok", "OSError:Bad file descriptor", "OSError", "Exception"}

\* variant: every OSError of close() is re-raised, the benign one too
StopCloseRaiseAll(t) ==
    /\ stop_pc[t] = "close"
    /\ \/ /\ ser = "None"
          /\ StopGoto(t, "clear")
          /\ UNCHANGED <<is_open, hist>>
       \/ /\ ser = "handle" /\ ~is_open
          /\ StopGoto(t, "clear")
          /\ hist' = NoteIO(hist, t, "close")
          /\ UNCHANGED is_open
       \/ /\ ser = "handle" /\ is_open
          /\ \E o \in CloseOutcomes :
                /\ is_open' = (o # "ok")
                /\ StopGoto(t, IF o \in {"OSError",
                                         "OSError:Bad file descriptor"}
                               THEN "clear_raise" ELSE "clear")
                /\ hist' = NoteClose(NoteIO(hist, t, "close"), o)
    /\ UNCHANGED <<ser, running, send_queue, raw_data, data_to_send, events,
                   wire, enqueued>>
    /\ UNCHANGED <<mwvars, kmvars>>

\* lines 110-118: self.ser.close() and its handlers.  Only an OSError that
\* is not "Bad file descriptor" is re-raised (after the finally clause).  A
\* close() that raises leaves the handle marked open.
StopClose(t) ==
    /\ stop_pc[t] = "close"
    /\ \/ \* self.ser was cleared meanwhile: AttributeError, caught at 117
          /\ ser = "None"
          /\ StopGoto(t, "clear")
          /\ UNCHANGED <<is_open, hist>>
       \/ \* the port is already closed: close() does nothing
          /\ ser = "handle" /\ ~is_open
          /\ StopGoto(t, "clear")
          /\ hist' = NoteIO(hist, t, "close")
          /\ UNCHANGED is_open
       \/ /\ ser = "handle" /\ is_open
          /\ \E o \in CloseOutcomes :
                /\ is_open' = (o # "ok")
                /\ StopGoto(t, IF o = "OSError" THEN "clear_raise"
                               ELSE "clear")
                /\ hist' = NoteClose(NoteIO(hist, t, "close"), o)
    /\ UNCHANGED <<ser, running, send_queue, raw_data, data_to_send, events,
                   wire, enqueued>>
    /\ UNCHANGED <<mwvars, kmvars>>

\* lines 119-120: finally: self.ser = None; then return, or re-raise
StopClear(t) ==
    /\ stop_pc[t] \in {"clear", "clear_raise"}
    /\ ser' = "None"
    /\ StopGoto(t, IF stop_pc[t] = "clear" THEN "return" ELSE "raise")
    /\ UNCHANGED <<is_open, running, send_queue, raw_data, data_to_send,
                   events, wire, enqueued, hist>>
    /\ UNCHANGED <<mwvars, kmvars>>

StopStep(t) ==
    \/ StopFlag(t)
    \/ StopIfSer(t)
    \/ StopClose(t)
    \/ StopClear(t)

\* -------------------------------------------------------------------------
\* Worker thread: run(), lines 24-90
\* -------------------------------------------------------------------------
\* outcomes of serial.Serial(...); the failure is the one line 85 handles
OpenOutcomes == {"ok", "SerialException"}

\* outcomes of Serial.in_waiting on an open port.  The property is read
\* outside the inner try (line 51): a serial.SerialException reaches the
\* handler of line 85, any other exception (the OSError of the POSIX ioctl
\* when the device is gone) reaches no handler.
PollOutcomes == {"empty", "pending", "SerialException", "OSError"}

\* outcomes of Serial.in_waiting on a handle another thread has closed
ClosedPollOutcomes == {"SerialException", "TypeError"}

\* outcomes of Serial.readline() that raise (lines 64 and 67)
ReadErrors == {"SerialException", "Exception"}

\* outcomes of Serial.write() (line 79)
WriteOutcomes == {"ok", "SerialException"}

\* variant: the failure is swallowed without a report
ConnectionFailedSilent ==
    /\ UNCHANGED events
    /\ pc' = "finally"
    /\ exc' = "none"

\* variant: the failure is reported but run() goes on with the handshake
ConnectionFailedFallThrough ==
    /\ Emit(Status(FALSE, "Connection Failed"))
    /\ pc' = "init_check"
    /\ exc' = "none"

\* lines 85-86: except serial.SerialException around the whole of run()
ConnectionFailed ==
    /\ Emit(Status(FALSE, "Connection Failed"))
    /\ pc' = "finally"
    /\ exc' = "none"

\* variant: a read failure is reported and the loop goes on
ReadErrorContinue(message) ==
    /\ Emit(Status(FALSE, message))
    /\ pc' = "write_if"

\* lines 64-69: the handlers of the read; both report and break
ReadError(message) ==
    /\ Emit(Status(FALSE, message))
    /\ pc' = "finally"

\* variant: after a write failure the worker opens the port again
WriteErrorReconnect ==
    /\ Emit(Status(FALSE, "Write Error"))
    /\ pc' = "open"

\* variant: the write failure is reported but the loop is not left
WriteErrorNoBreak ==
    /\ Emit(Status(FALSE, "Write Error"))
    /\ pc' = "sleep_tick"

\* lines 79-81: except serial.SerialException around the write: report, break
WriteError ==
    /\ Emit(Status(FALSE, "Write Error"))
    /\ pc' = "finally"

\* an exception no handler of run() catches: only the finally clause runs
Uncaught(e) ==
    /\ exc' = e
    /\ pc' = "finally"
    /\ UNCHANGED events

\* lines 31-35: self.ser = serial.Serial(port, baudrate, timeout=0.1)
Open ==
    /\ pc = "open"
    /\ \E o \in OpenOutcomes :
          /\ hist' = [NoteIO(hist, "worker", "open") EXCEPT !.open = o]
          /\ IF o = "ok"
             THEN /\ ser' = "handle"
                  /\ is_open' = TRUE
                  /\ pc' = "sleep"
                  /\ UNCHANGED <<exc, events>>
             ELSE /\ ConnectionFailed
                  /\ UNCHANGED <<ser, is_open>>
    /\ UNCHANGED <<running, send_queue, raw_data, data_to_send, stop_pc,
                   caller_exc, wire, enqueued>>
    /\ UNCHANGED <<mwvars, kmvars>>

\* line 38: time.sleep(5)
Stabilize ==
    /\ pc = "sleep"
    /\ pc' = "if_ser"
    /\ UNCHANGED <<ser, is_open, running, send_queue, raw_data, data_to_send,
                   exc, stop_pc, caller_exc, events, wire, enqueued, hist>>
    /\ UNCHANGED <<mwvars, kmvars>>

\* variant: the handshake and the connected notification are skipped
IfSerSkip ==
    /\ pc = "if_ser"
    /\ pc' = "while_ser"
    /\ UNCHANGED <<ser, is_open, running, send_queue, raw_data, data_to_send,
                   exc, stop_pc, caller_exc, events, wire, enqueued, hist>>
    /\ UNCHANGED <<mwvars, kmvars>>

\* line 40, left operand: if self.ser
IfSer ==
    /\ pc = "if_ser"
    /\ pc' = IF ser = "None" THEN "while_ser" ELSE "if_isOpen"
    /\ UNCHANGED <<ser, is_open, running, send_queue, raw_data, data_to_send,
                   exc, stop_pc, caller_exc, events, wire, enqueued, hist>>
    /\ UNCHANGED <<mwvars, kmvars>>

\* line 40, right operand: self.ser.isOpen()
IfIsOpen ==
    /\ pc = "if_isOpen"
    /\ IF ser = "None"
       THEN Uncaught("AttributeError")
       ELSE /\ pc' = IF is_open THEN "init_check" ELSE "while_ser"
            /\ UNCHANGED <<exc, events>>
    /\ UNCHANGED <<ser, is_open, running, send_queue, raw_data, data_to_send,
                   stop_pc, caller_exc, wire, enqueued, hist>>
    /\ UNCHANGED <<mwvars, kmvars>>

\* variant: the handshake command is not enqueued before the notification
InitCheckSkipped ==
    /\ pc = "init_check"
    /\ pc' = "emit_connected"
    /\ UNCHANGED <<ser, is_open, running, send_queue, raw_data, data_to_send,
                   exc, stop_pc, caller_exc, events, wire, enqueued, hist>>
    /\ UNCHANGED <<mwvars, kmvars>>

\* line 41: self.send_data("INIT_CHECK")
InitCheck ==
    /\ pc = "init_check"
    /\ send_queue' = Enqueue(send_queue, Frame(INIT_CHECK))
    /\ enqueued' = Append(enqueued, Frame(INIT_CHECK))
    /\ pc' = "emit_connected"
    /\ UNCHANGED <<ser, is_open, running, raw_data, data_to_send, exc,
                   stop_pc, caller_exc, events, wire, hist>>
    /\ UNCHANGED <<mwvars, kmvars>>

\* variant: the connected notification is never emitted
EmitConnectedMissing ==
    /\ pc = "emit_connected"
    /\ pc' = "while_ser"
    /\ UNCHANGED <<ser, is_open, running, send_queue, raw_data, data_to_send,
                   exc, stop_pc, caller_exc, events, wire, enqueued, hist>>
    /\ UNCHANGED <<mwvars, kmvars>>

\* lines 42-45: self.connection_status.emit(True, "Connected to ...")
EmitConnected ==
    /\ pc = "emit_connected"
    /\ Emit(Status(TRUE, "Connected"))
    /\ pc' = "while_ser"
    /\ UNCHANGED <<ser, is_open, running, send_queue, raw_data, data_to_send,
                   exc, stop_pc, caller_exc, wire, enqueued, hist>>
    /\ UNCHANGED <<mwvars, kmvars>>

\* line 48, first operand: while self.ser
WhileSer ==
    /\ pc = "while_ser"
    /\ pc' = IF ser = "None" THEN "finally" ELSE "while_running"
    /\ UNCHANGED <<ser, is_open, running, send_queue, raw_data, data_to_send,
                   exc, stop_pc, caller_exc, events, wire, enqueued, hist>>
    /\ UNCHANGED <<mwvars, kmvars>>

\* variant: the loop condition does not look at the run flag
WhileRunningIgnored ==
    /\ pc = "while_running"
    /\ pc' = "while_isOpen"
    /\ UNCHANGED <<ser, is_open, running, send_queue, raw_data, data_to_send,
                   exc, stop_pc, caller_exc, events, wire, enqueued, hist>>
    /\ UNCHANGED <<mwvars, kmvars>>

\* line 48, second operand: and self.running
WhileRunning ==
    /\ pc = "while_running"
    /\ pc' = IF running THEN "while_isOpen" ELSE "finally"
    /\ UNCHANGED <<ser, is_open, running, send_queue, raw_data, data_to_send,
                   exc, stop_pc, caller_exc, events, wire, enqueued, hist>>
    /\ UNCHANGED <<mwvars, kmvars>>

\* line 48, third operand: and self.ser.isOpen()
WhileIsOpen ==
    /\ pc = "while_isOpen"
    /\ IF ser = "None"
       THEN Uncaught("AttributeError")
       ELSE /\ pc' = IF is_open THEN "poll" ELSE "finally"
            /\ UNCHANGED <<exc, events>>
    /\ UNCHANGED <<ser, is_open, running, send_queue, raw_data, data_to_send,
                   stop_pc, caller_exc, wire, enqueued, hist>>
    /\ UNCHANGED <<mwvars, kmvars>>

\* line 51: if self.ser.in_waiting > 0
Poll ==
    /\ pc = "poll"
    /\ \/ /\ ser = "None"
          /\ Uncaught("AttributeError")
          /\ UNCHANGED hist
       \/ /\ ser = "handle" /\ ~is_open
          /\ \E o \in ClosedPollOutcomes :
                IF o = "SerialException" THEN ConnectionFailed
                ELSE Uncaught(o)
          /\ hist' = NoteFail(NoteIO(hist, "worker", "poll"), "poll")
       \/ /\ ser = "handle" /\ is_open
          /\ \E o \in PollOutcomes :
                CASE o = "empty" ->
                        /\ pc' = "write_if"
                        /\ hist' = NoteIO(hist, "worker", "poll")
                        /\ UNCHANGED <<exc, events>>
                  [] o = "pending" ->
                        /\ hist.rx < MaxRx
                        /\ pc' = "readline"
                        /\ hist' = [NoteIO(hist, "worker", "poll")
                                       EXCEPT !.rx = @ + 1]
                        /\ UNCHANGED <<exc, events>>
                  [] o = "SerialException" ->
                        /\ ConnectionFailed
                        /\ hist' = NoteFail(NoteIO(hist, "worker", "poll"),
                                            "poll")
                  [] o = "OSError" ->
                        /\ Uncaught(o)
                        /\ hist' = NoteFail(NoteIO(hist, "worker", "poll"),
                                            "poll")
    /\ UNCHANGED <<ser, is_open, running, send_queue, raw_data, data_to_send,
                   stop_pc, caller_exc, wire, enqueued>>
    /\ UNCHANGED <<mwvars, kmvars>>

\* lines 53, 64-69: raw_data = self.ser.readline() and its handlers
ReadLine ==
    /\ pc = "readline"
    /\ \/ \* self.ser is None: AttributeError, caught at line 67
          /\ ser = "None"
          /\ ReadError("Unexpected Read Error")
          /\ UNCHANGED <<raw_data, hist>>
       \/ \* port closed by another thread: PortNotOpenError, caught at 64
          /\ ser = "handle" /\ ~is_open
          /\ ReadError("Read Error")
          /\ hist' = NoteFail(NoteIO(hist, "worker", "read"), "read")
          /\ UNCHANGED raw_data
       \/ /\ ser = "handle" /\ is_open
          /\ \E line \in RxLines :
                /\ raw_data' = line
                /\ pc' = "decode"
                /\ hist' = NoteIO(hist, "worker", "read")
                /\ UNCHANGED events
       \/ /\ ser = "handle" /\ is_open
          /\ \E o \in ReadErrors :
                /\ ReadError(IF o = "SerialException" THEN "Read Error"
                             ELSE "Unexpected Read Error")
                /\ hist' = NoteFail(NoteIO(hist, "worker", "read"), "read")
                /\ UNCHANGED raw_data
    /\ UNCHANGED <<ser, is_open, running, send_queue, data_to_send, exc,
                   stop_pc, caller_exc, wire, enqueued>>
    /\ UNCHANGED <<mwvars, kmvars>>

\* variant: a decode failure is treated like a read error
DecodeFatal ==
    /\ pc = "decode"
    /\ IF Utf8Valid(raw_data)
       THEN /\ LET data == Strip(Utf8Decode(raw_data))
               IN  IF data # <<>> THEN Emit(Data("RX", data))
                   ELSE UNCHANGED events
            /\ pc' = "write_if"
       ELSE /\ Emit(Status(FALSE, "Unexpected Read Error"))
            /\ pc' = "finally"
    /\ UNCHANGED <<ser, is_open, running, send_queue, raw_data, data_to_send,
                   exc, stop_pc, caller_exc, wire, enqueued, hist>>
    /\ UNCHANGED <<mwvars, kmvars>>

\* lines 55-62: decode, strip, emit the RX line or the corrupt-data warning
Decode ==
    /\ pc = "decode"
    /\ IF Utf8Valid(raw_data)
       THEN LET data == Strip(Utf8Decode(raw_data))
            IN  IF data # <<>> THEN Emit(Data("RX", data))
                ELSE UNCHANGED events
       ELSE Emit(Data("WARNING", <<Len(raw_data)>>))
    /\ pc' = "write_if"
    /\ UNCHANGED <<ser, is_open, running, send_queue, raw_data, data_to_send,
                   exc, stop_pc, caller_exc, wire, enqueued, hist>>
    /\ UNCHANGED <<mwvars, kmvars>>

\* variant: the oldest element is read but stays in the queue
PopPeek(q) == <<Head(q), q>>

\* variant: list.pop() takes the newest element
PopLast(q) == <<q[Len(q)], SubSeq(q, 1, Len(q) - 1)>>

\* list.pop(0): the element taken and the rest of the queue
Pop(q) == <<Head(q), Tail(q)>>

\* variant: the loop never takes a command from the queue
WriteIfSkip ==
    /\ pc = "write_if"
    /\ pc' = "sleep_tick"
    /\ UNCHANGED <<ser, is_open, running, send_queue, raw_data, data_to_send,
                   exc, stop_pc, caller_exc, events, wire, enqueued, hist>>
    /\ UNCHANGED <<mwvars, kmvars>>

\* lines 72-73: if self.send_queue: data_to_send = self.send_queue.pop(0)
WriteIf ==
    /\ pc = "write_if"
    /\ IF send_queue # <<>>
       THEN /\ data_to_send' = Pop(send_queue)[1]
            /\ send_queue' = Pop(send_queue)[2]
            /\ pc' = "write"
       ELSE /\ pc' = "sleep_tick"
            /\ UNCHANGED <<data_to_send, send_queue>>
    /\ UNCHANGED <<ser, is_open, running, raw_data, exc, stop_pc, caller_exc,
                   events, wire, enqueued, hist>>
    /\ UNCHANGED <<mwvars, kmvars>>

\* lines 75, 79-81: self.ser.write(data_to_send) and its handler
Write ==
    /\ pc = "write"
    /\ \/ \* self.ser is None: AttributeError, not a SerialException
          /\ ser = "None"
          /\ Uncaught("AttributeError")
          /\ UNCHANGED <<wire, hist>>
       \/ \* port closed by another thread: PortNotOpenError, caught at 79
          /\ ser = "handle" /\ ~is_open
          /\ WriteError
          /\ hist' = NoteFail(NoteIO(hist, "worker", "write"), "write")
          /\ UNCHANGED <<wire, exc>>
       \/ /\ ser = "handle" /\ is_open
          /\ \E o \in WriteOutcomes :
                IF o = "ok"
                THEN /\ wire' = Append(wire, data_to_send)
                     /\ pc' = "echo"
                     /\ hist' = NoteIO(hist, "worker", "write")
                     /\ UNCHANGED <<exc, events>>
                ELSE /\ WriteError
                     /\ hist' = NoteFail(NoteIO(hist, "worker", "write"),
                                         "write")
                     /\ UNCHANGED <<wire, exc>>
    /\ UNCHANGED <<ser, is_open, running, send_queue, raw_data, data_to_send,
                   stop_pc, caller_exc, enqueued>>
    /\ UNCHANGED <<mwvars, kmvars>>

\* variant: the echo carries the frame as written, terminator included
EchoRaw ==
    /\ pc = "echo"
    /\ Emit(Data("TX", Utf8Decode(data_to_send)))
    /\ pc' = "sleep_tick"
    /\ UNCHANGED <<ser, is_open, running, send_queue, raw_data, data_to_send,
                   exc, stop_pc, caller_exc, wire, enqueued, hist>>
    /\ UNCHANGED <<mwvars, kmvars>>

\* lines 76-78: self.data_received.emit("TX: " + decode().strip())
Echo ==
    /\ pc = "echo"
    /\ Emit(Data("TX", Strip(Utf8Decode(data_to_send))))
    /\ pc' = "sleep_tick"
    /\ UNCHANGED <<ser, is_open, running, send_queue, raw_data, data_to_send,
                   exc, stop_pc, caller_exc, wire, enqueued, hist>>
    /\ UNCHANGED <<mwvars, kmvars>>

\* line 83: time.sleep(0.01)
SleepTick ==
    /\ pc = "sleep_tick"
    /\ pc' = "while_ser"
    /\ UNCHANGED <<ser, is_open, running, send_queue, raw_data, data_to_send,
                   exc, stop_pc, caller_exc, events, wire, enqueued, hist>>
    /\ UNCHANGED <<mwvars, kmvars>>

\* line 90: self.connection_status.emit(False, "Disconnected.")
EmitDisconnected ==
    /\ pc = "emit_disconnected"
    /\ Emit(Status(FALSE, "Disconnected."))
    /\ pc' = "done"
    /\ UNCHANGED <<ser, is_open, running, send_queue, raw_data, data_to_send,
                   exc, stop_pc, caller_exc, wire, enqueued, hist>>
    /\ UNCHANGED <<mwvars, kmvars>>

WorkerStep ==
    \/ Open \/ Stabilize \/ IfSer \/ IfIsOpen \/ InitCheck \/ EmitConnected
    \/ WhileSer \/ WhileRunning \/ WhileIsOpen \/ Poll \/ ReadLine \/ Decode
    \/ WriteIf \/ Write \/ Echo \/ SleepTick \/ Finally
    \/ StopStep("worker") \/ EmitDisconnected

CallerStep ==
    \/ Start \/ SendData \/ CallStop \/ StopStep("caller") \/ Wait

Next == WorkerStep \/ CallerStep

Spec == Init /\ [][Next]_vars

\* the worker thread is scheduled as long as it has a step to take, and a
\* stop_serial() call in progress on the caller thread runs to its end
FairSpec == Spec /\ WF_vars(WorkerStep) /\ WF_vars(StopStep("caller"))

\* -------------------------------------------------------------------------
\* The SerialWorker of src/MasterFile/BattleBot_BTControl_App.py (lines
\* 27-114).  Its run() and send_data are those of the core worker statement
\* for statement; its stop_serial (lines 98-114) has no test of
\* self.running before `self.running = False`.
\* -------------------------------------------------------------------------
\* the call of the MasterFile stop_serial: it goes on to line 100
MasterStopEnter(t) ==
    /\ stop_pc[t] = "none"
    /\ StopGoto(t, "flag")

\* stop_serial() of the MasterFile worker called on the caller thread
MasterCallStop ==
    /\ hist.stops < MaxStops
    /\ MasterStopEnter("caller")
    /\ hist' = [hist EXCEPT !.stops = @ + 1]
    /\ UNCHANGED <<ser, is_open, running, send_queue, raw_data, data_to_send,
                   events, wire, enqueued>>
    /\ UNCHANGED <<mwvars, kmvars>>

\* MasterFile run(), lines 88-89: finally: self.stop_serial()
MasterFinally ==
    /\ pc = "finally"
    /\ MasterStopEnter("worker")
    /\ UNCHANGED <<ser, is_open, running, send_queue, raw_data, data_to_send,
                   events, wire, enqueued, hist>>
    /\ UNCHANGED <<mwvars, kmvars>>

MasterWorkerStep ==
    \/ Open \/ Stabilize \/ IfSer \/ IfIsOpen \/ InitCheck \/ EmitConnected
    \/ WhileSer \/ WhileRunning \/ WhileIsOpen \/ Poll \/ ReadLine \/ Decode
    \/ WriteIf \/ Write \/ Echo \/ SleepTick \/ MasterFinally
    \/ StopStep("worker") \/ EmitDisconnected

MasterCallerStep ==
    \/ Start \/ SendData \/ MasterCallStop \/ StopStep("caller") \/ Wait

MasterNext == MasterWorkerStep \/ MasterCallerStep

MasterSpec == Init /\ [][MasterNext]_vars

\* -------------------------------------------------------------------------
\* Main window (src/ui/main_window.py) with the workers it creates.  The
\* slots run on the GUI thread, one at a time; a worker's signals are
\* queued to it and handled in the order they were emitted.  A worker is
\* modelled by what the window can see of its run(): the signals it emits
\* and the end of its thread.
\* -------------------------------------------------------------------------
\* QThread.isRunning()
isRunning(w) == thread_state[w] \in {"connecting", "connected", "closing"}

\* `self.worker_thread and self.worker_thread.isRunning()`
WorkerRunning == worker_thread # 0 /\ isRunning(worker_thread)

\* connection_status.emit(connected, ...) in worker w: queued to the GUI
Post(w, connected) ==
    posted' = Append(posted, [worker |-> w, connected |-> connected])

ThreadGoto(w, state) == thread_state' = [thread_state EXCEPT ![w] = state]

\* run(), lines 85-86: the open fails, "Connection Failed" is emitted
ThreadOpenFailed(w) ==
    /\ thread_state[w] = "connecting"
    /\ Post(w, FALSE)
    /\ ThreadGoto(w, "closing")
    /\ UNCHANGED <<worker_thread, keep_alive_timer, tab_connected, gui_pc,
                   stop_requested, mw_hist>>
    /\ UNCHANGED <<wkvars, kmvars>>

\* run(), lines 31-45: the open succeeds, the connected event is emitted
ThreadConnected(w) ==
    /\ thread_state[w] = "connecting"
    /\ Post(w, TRUE)
    /\ ThreadGoto(w, "connected")
    /\ UNCHANGED <<worker_thread, keep_alive_timer, tab_connected, gui_pc,
                   stop_requested, mw_hist>>
    /\ UNCHANGED <<wkvars, kmvars>>

\* run(), lines 64-69 and 79-81: a read or write error is emitted
ThreadFailed(w) ==
    /\ thread_state[w] = "connected"
    /\ Post(w, FALSE)
    /\ ThreadGoto(w, "closing")
    /\ UNCHANGED <<worker_thread, keep_alive_timer, tab_connected, gui_pc,
                   stop_requested, mw_hist>>
    /\ UNCHANGED <<wkvars, kmvars>>

\* run() reaches its finally clause without an event: the loop condition
\* of line 48 fails after a stop_serial(), or line 40 fails after one, or
\* an exception no handler catches leaves the loop
ThreadLeaves(w) ==
    /\ \/ thread_state[w] = "connected"
       \/ thread_state[w] = "connecting" /\ stop_requested[w]
    /\ ThreadGoto(w, "closing")
    /\ UNCHANGED <<worker_thread, keep_alive_timer, tab_connected, gui_pc,
                   stop_requested, posted, mw_hist>>
    /\ UNCHANGED <<wkvars, kmvars>>

\* run(), lines 89-90: stop_serial() returns, "Disconnected." is emitted
\* and the thread ends
ThreadDisconnected(w) ==
    /\ thread_state[w] = "closing"
    /\ Post(w, FALSE)
    /\ ThreadGoto(w, "finished")
    /\ UNCHANGED <<worker_thread, keep_alive_timer, tab_connected, gui_pc,
                   stop_requested, mw_hist>>
    /\ UNCHANGED <<wkvars, kmvars>>

\* run(), line 89: stop_serial() raises (line 116) and the thread ends
\* without the final event
ThreadDies(w) ==
    /\ thread_state[w] = "closing"
    /\ ThreadGoto(w, "finished")
    /\ UNCHANGED <<worker_thread, keep_alive_timer, tab_connected, gui_pc,
                   stop_requested, posted, mw_hist>>
    /\ UNCHANGED <<wkvars, kmvars>>

ThreadStep(w) ==
    \/ ThreadOpenFailed(w) \/ ThreadConnected(w) \/ ThreadFailed(w)
    \/ ThreadLeaves(w) \/ ThreadDisconnected(w) \/ ThreadDies(w)

\* start_connection, lines 101-111
start_connection ==
    IF WorkerRunning
    THEN UNCHANGED mwvars
    ELSE \E w \in Workers :
            /\ thread_state[w] = "new"
            /\ \A v \in 1..(w - 1) : thread_state[v] # "new"
            /\ worker_thread' = w
            /\ ThreadGoto(w, "connecting")
            /\ UNCHANGED <<keep_alive_timer, tab_connected, gui_pc,
                           stop_requested, posted, mw_hist>>

\* stop_connection, lines 120-127
stop_connection_tail ==
    /\ worker_thread' = 0
    /\ keep_alive_timer' = FALSE
    /\ tab_connected' = FALSE

\* stop_connection, lines 113-127; the GUI thread blocks in wait()
stop_connection ==
    IF WorkerRunning
    THEN /\ stop_requested' = [stop_requested EXCEPT ![worker_thread] = TRUE]
         /\ gui_pc' = "wait"
         /\ UNCHANGED <<worker_thread, keep_alive_timer, tab_connected,
                        thread_state, posted, mw_hist>>
    ELSE /\ stop_connection_tail
         /\ UNCHANGED <<gui_pc, thread_state, stop_requested, posted,
                        mw_hist>>

\* SettingsTab.handle_connect_button (settings_tab.py, lines 113-126) while
\* the tab shows "Connect"
ClickConnect ==
    /\ gui_pc = "idle"
    /\ ~tab_connected
    /\ start_connection
    /\ UNCHANGED <<wkvars, kmvars>>

\* the same button while the tab shows "Disconnect"
ClickDisconnect ==
    /\ gui_pc = "idle"
    /\ tab_connected
    /\ stop_connection
    /\ UNCHANGED <<wkvars, kmvars>>

\* stop_connection, line 118: wait() returns when the thread has ended
StopConnectionReturn ==
    /\ gui_pc = "wait"
    /\ ~isRunning(worker_thread)
    /\ stop_connection_tail
    /\ gui_pc' = "idle"
    /\ UNCHANGED <<thread_state, stop_requested, posted, mw_hist>>
    /\ UNCHANGED <<wkvars, kmvars>>

\* handle_connection_status, lines 129-139, run for the oldest queued
\* connection_status signal, whichever worker emitted it
handle_connection_status ==
    /\ gui_pc = "idle"
    /\ posted # <<>>
    /\ LET e == Head(posted)
       IN  /\ posted' = Tail(posted)
           /\ tab_connected' = e.connected
           /\ IF e.connected
              THEN /\ keep_alive_timer' = TRUE
                   /\ UNCHANGED worker_thread
                   /\ mw_hist' = [mw_hist EXCEPT
                                    !.handledTrue = @ \cup {e.worker}]
              ELSE /\ keep_alive_timer' = FALSE
                   /\ worker_thread' = 0
                   /\ mw_hist' = [mw_hist EXCEPT
                                    !.handledFalse = @ \cup {e.worker}]
    /\ UNCHANGED <<gui_pc, thread_state, stop_requested>>
    /\ UNCHANGED <<wkvars, kmvars>>

\* a PING enqueued on the current worker is "early" before the window has
\* handled that worker's connected event, "late" after it has handled a
\* disconnected event of that worker, "connected" in between
PingKind ==
    IF worker_thread \notin mw_hist.handledTrue THEN "early"
    ELSE IF worker_thread \in mw_hist.handledFalse THEN "late"
    ELSE "connected"

\* variant: send_command hands the command to the worker without looking
\* at it
send_command_unguarded(command_code, h) ==
    [h EXCEPT !.queued = @ \cup {worker_thread}]

\* send_command, lines 145-149, as the change it makes to the history h:
\* send_data on the running worker, or else the error
\* "Cannot send '<code>'. Not connected." in the log
send_command(command_code, h) ==
    IF WorkerRunning
    THEN [h EXCEPT !.queued = @ \cup {worker_thread}]
    ELSE [h EXCEPT !.log = @ \cup {command_code}]

\* lines 52-54: the keep-alive timer fires and calls send_command("PING")
KeepAliveTimeout ==
    /\ gui_pc = "idle"
    /\ keep_alive_timer
    /\ mw_hist' = send_command("PING",
                     IF WorkerRunning
                     THEN [mw_hist EXCEPT !.pings = @ \cup {PingKind}]
                     ELSE mw_hist)
    /\ UNCHANGED <<worker_thread, keep_alive_timer, tab_connected, gui_pc,
                   thread_state, stop_requested, posted>>
    /\ UNCHANGED <<wkvars, kmvars>>

\* line 87: a control button emits command_requested, which is connected
\* to send_command.  The buttons are enabled by the same status events that
\* set the settings tab (lines 125 and 131).
CommandRequested ==
    /\ gui_pc = "idle"
    /\ tab_connected
    /\ mw_hist.commands < MaxCommands
    /\ mw_hist' = send_command(ButtonCommand,
                     [mw_hist EXCEPT !.commands = @ + 1])
    /\ UNCHANGED <<worker_thread, keep_alive_timer, tab_connected, gui_pc,
                   thread_state, stop_requested, posted>>
    /\ UNCHANGED <<wkvars, kmvars>>

GuiStep ==
    \/ ClickConnect \/ ClickDisconnect \/ StopConnectionReturn
    \/ handle_connection_status \/ KeepAliveTimeout \/ CommandRequested

WinNext == GuiStep \/ \E w \in Workers : ThreadStep(w)

WinSpec == Init /\ [][WinNext]_vars

\* -------------------------------------------------------------------------
\* The key map (src/core/keymap.py)
\* -------------------------------------------------------------------------
\* the commands whose key the user edits: two of the default map and one
\* that is not in it
KeyCommands == {"A1", "A2", "A14"}

\* the texts typed as a new key:
\* "", "b", " 1 ", "w", "X", "BB", "!", "\u00df" (sharp s), "\u00e9" (e acute)
KeyInputs == { <<>>, <<98>>, <<32, 49, 32>>, <<119>>, <<88>>, <<66, 66>>,
               <<33>>, <<223>>, <<233>> }

\* str.upper() of one code point below 256 (other than U+00B5 and U+00FF,
\* whose upper-case forms lie above 255): a text, since the upper-case form
\* of the sharp s is "SS"
UpperChar(cp) ==
    IF cp \in 97..122 THEN <<cp - 32>>
    ELSE IF cp = 223 THEN <<83, 83>>
    ELSE IF cp \in (224..254) \ {247} THEN <<cp - 32>>
    ELSE <<cp>>

\* str.upper()
RECURSIVE Upper(_)
Upper(s) == IF s = <<>> THEN <<>> ELSE UpperChar(Head(s)) \o Upper(Tail(s))

\* whether a code point below 256 is a letter or a digit
IsAlnumChar(cp) ==
    cp \in (48..57) \cup (65..90) \cup (97..122) \cup {170, 181, 186}
            \cup ((192..255) \ {215, 247})

\* str.isalnum(): at least one character and all of them alphanumeric
IsAlnum(s) == s # <<>> /\ \A i \in 1..Len(s) : IsAlnumChar(s[i])

\* dict.get(command, default)
MapGet(m, command, default) ==
    IF \E i \in 1..Len(m) : m[i].command = command
    THEN m[CHOOSE i \in 1..Len(m) : m[i].command = command].key
    ELSE default

\* dict.values()
MapValues(m) == {m[i].key : i \in 1..Len(m)}

\* m[command] = key: an existing entry keeps its place, a new one goes last
MapSet(m, command, key) ==
    IF \E i \in 1..Len(m) : m[i].command = command
    THEN [i \in 1..Len(m) |->
            IF m[i].command = command THEN Entry(command, key) ELSE m[i]]
    ELSE Append(m, Entry(command, key))

\* get_key, lines 29-30: self.map.get(command, "?")
get_key(command) == MapGet(map, command, <<63>>)

\* get_command_from_key, lines 50-53: the reverse dict keeps, for a key,
\* the last command of the map that has it; a key nobody has gives None
get_command_from_key(key_char) ==
    LET k == Upper(key_char)
        holders == {i \in 1..Len(map) : map[i].key = k}
    IN  IF holders = {} THEN "None"
        ELSE map[CHOOSE i \in holders : \A j \in holders : j <= i].command

\* variant: the typed key is not upper-cased
NormaliseAsTyped(new_key) == Strip(new_key)

\* update_key, line 38: new_key.upper().strip()
Normalise(new_key) == Strip(Upper(new_key))

\* update_key, line 40
InvalidKey(key) == key = <<>> \/ Len(key) # 1 \/ ~IsAlnum(key)

\* variant: no key counts as taken
AlreadyAssignedNever(m, command, key) == FALSE

\* update_key, line 43: `new_key in self.map.values() and
\* self.map.get(command) != new_key`; get gives None, which no key equals,
\* for a command that is not in the map
AlreadyAssigned(m, command, key) ==
    /\ key \in MapValues(m)
    /\ ~\E i \in 1..Len(m) : m[i].command = command /\ m[i].key = key

KeyCall(command, new_key, raised) ==
    key_call' = [command |-> command, new_key |-> new_key, raised |-> raised]

\* variant: the entry is written before the duplicate check raises
update_key_write_first ==
    /\ \E command \in KeyCommands, new_key \in KeyInputs :
          LET key == Normalise(new_key)
          IN  IF InvalidKey(key)
              THEN /\ KeyCall(command, new_key, "ValueError")
                   /\ UNCHANGED map
              ELSE IF AlreadyAssigned(map, command, key)
              THEN /\ KeyCall(command, new_key, "ValueError")
                   /\ map' = MapSet(map, command, key)
              ELSE /\ KeyCall(command, new_key, "none")
                   /\ map' = MapSet(map, command, key)
    /\ UNCHANGED <<wkvars, mwvars>>

\* update_key, lines 37-46
update_key ==
    /\ \E command \in KeyCommands, new_key \in KeyInputs :
          LET key == Normalise(new_key)
          IN  IF InvalidKey(key)
              THEN /\ KeyCall(command, new_key, "ValueError")
                   /\ UNCHANGED map
              ELSE IF AlreadyAssigned(map, command, key)
              THEN /\ KeyCall(command, new_key, "ValueError")
                   /\ UNCHANGED map
              ELSE /\ KeyCall(command, new_key, "none")
                   /\ map' = MapSet(map, command, key)
    /\ UNCHANGED <<wkvars, mwvars>>

KeyNext == update_key

KeySpec == Init /\ [][KeyNext]_vars


\* =========================================================================
\* Properties
\* =========================================================================
Connected == Status(TRUE, "Connected")
Disconnected == Status(FALSE, "Disconnected.")

IsStatus(e, connected) == e.sig = "connection_status" /\ e.connected = connected

IsData(e) == e.sig = "data_received"

CountStatus(connected) ==
    Cardinality({i \in 1..Len(events) : IsStatus(events[i], connected)})

CountEvent(e) == Cardinality({i \in 1..Len(events) : events[i] = e})

IsPrefix(a, b) == Len(a) <= Len(b) /\ a = SubSeq(b, 1, Len(a))

Teardown == {"finally", "stop_serial", "emit_disconnected", "done"}

OpenFailed == hist.open = "SerialException"

\* C1: the frames the transport has accepted are, in order, the first frames
\* that were appended to the queue: nothing is reordered, merged or
\* duplicated on the way from send_data to the wire.
C1_FifoOrder == IsPrefix(wire, enqueued)

\* two frames went out, one of them a caller's command
C1_Witness == Len(wire) >= 2 /\ hist.sends >= 1

\* C2: when run() has finished, the last event it emitted is
\* connection_status(False, "Disconnected."), whatever path it took.
C2_FinalDisconnected ==
    pc = "done" => /\ events # <<>>
                   /\ events[Len(events)] = Disconnected

\* C3: the first frame the transport accepts is INIT_CHECK\n.
C3_InitCheckFirst == wire # <<>> => wire[1] = Frame(INIT_CHECK)

C5_ExactlyOneDisconnect ==
    (pc = "done" /\ OpenFailed) => CountStatus(FALSE) = 1

\* C5 amended: a run whose open failed emits "Connection Failed" exactly
\* once, and when it finishes its events are that one followed by the final
\* "Disconnected.": two connection_status(False, ...) events.
C5_FailedThenDisconnected ==
    OpenFailed =>
        /\ CountEvent(Status(FALSE, "Connection Failed")) = 1
        /\ pc = "done" =>
              events = <<Status(FALSE, "Connection Failed"), Disconnected>>

\* the run of a failed open has finished
C5_Witness == pc = "done" /\ OpenFailed /\ CountStatus(FALSE) = 2

\* C6: after an open failure the worker is on the teardown path and has
\* never polled, read or written, has enqueued no INIT_CHECK and has
\* emitted no connection_status(True, ...).
C6_OpenFailureSkipsLoop ==
    OpenFailed =>
        /\ pc \in Teardown
        /\ hist.io \cap {<<"worker", "poll">>, <<"worker", "read">>,
                         <<"worker", "write">>} = {}
        /\ wire = <<>>
        /\ \A i \in 1..Len(enqueued) : enqueued[i] # Frame(INIT_CHECK)
        /\ CountStatus(TRUE) = 0

\* the run of a failed open has finished with a command still queued
C6_Witness == pc = "done" /\ OpenFailed /\ send_queue # <<>>

\* C7: once a write has failed, "Write Error" has been emitted exactly once,
\* the transport is not polled, read or written again, and the run finishes.
C7_WriteFailureEndsRun ==
    /\ [](hist.failed = "write" =>
             /\ CountEvent(Status(FALSE, "Write Error")) = 1
             /\ Len(wire) = hist.wireAtFail
             /\ ~hist.ioAfterFail
             /\ pc \in Teardown)
    /\ (hist.failed = "write") ~> (pc = "done")

\* a write failed with a command still queued behind it, and the run ended
C7_Witness == hist.failed = "write" /\ pc = "done" /\ send_queue # <<>>

\* C8: once polling or reading the transport has failed, the worker has
\* emitted a connection_status(False, <error message>), is on the teardown
\* path, and polls, reads and writes the transport no more.
C8_ReadFailureReported ==
    hist.failed \in {"poll", "read"} =>
        /\ \E i \in 1..Len(events) :
              IsStatus(events[i], FALSE) /\ events[i] # Disconnected
        /\ pc \in Teardown
        /\ ~hist.ioAfterFail

\* C9: the step that decodes an undecodable line emits the warning with the
\* length of the line and nothing else and goes on to the write step; the
\* write step takes the oldest pending command and goes on to write it.
C9_DecodeFailureContinues ==
    [][ /\ (pc = "decode" /\ pc' # "decode" /\ ~Utf8Valid(raw_data)) =>
              /\ events' = Append(events, Data("WARNING", <<Len(raw_data)>>))
              /\ pc' = "write_if"
        /\ (pc = "write_if" /\ pc' # "write_if" /\ send_queue # <<>>) =>
              /\ pc' = "write"
              /\ data_to_send' = Head(send_queue)
      ]_vars

\* a warning was emitted and a frame was written and echoed after it
C9_Witness ==
    \E i \in 1..Len(events) :
        /\ IsData(events[i]) /\ events[i].tag = "WARNING"
        /\ \E j \in (i + 1)..Len(events) :
              IsData(events[j]) /\ events[j].tag = "TX"

\* C10: when the caller has called stop_serial() and waited for the thread
\* to finish, the port is no longer held open, unless a close() of the
\* handle was attempted and failed.
C10_HandleReleased ==
    hist.joined =>
        \/ ~is_open
        \/ \E t \in Threads : <<t, "close">> \in hist.io

\* C11: every operation on the transport (open, poll, read, write, close)
\* is executed by the worker thread, never by the caller's thread.
C11_WorkerOnlyTransport == \A x \in hist.io : x[1] = "worker"

\* C12: no exception leaves run() on the worker thread and none leaves
\* stop_serial() on the caller's thread.
C12_NoUncaughtException == exc = "none" /\ caller_exc = "none"

\* C13: a stop_serial() call made after an earlier call has returned comes
\* back at once: it closes nothing, emits nothing, raises nothing and
\* changes neither the run flag nor the handle nor the queue.  The earlier
\* call is the caller's, or the one of run()'s finally clause.
C13_SecondStopNoOp ==
    [][ LET callerCall == hist'.stops = hist.stops + 1
            workerCall == pc = "finally" /\ pc' # "finally"
            callerDone == hist.stops >= 1 /\ stop_pc["caller"] = "none"
            workerDone == pc \in {"emit_disconnected", "done"}
            noEffect == /\ stop_pc' = stop_pc
                        /\ hist'.io = hist.io
                        /\ UNCHANGED <<ser, is_open, running, send_queue,
                                       events, wire, exc, caller_exc>>
        IN  /\ (callerCall /\ (callerDone \/ workerDone)) =>
                  noEffect /\ pc' = pc
            /\ (workerCall /\ callerDone) =>
                  noEffect /\ pc' = "emit_disconnected"
      ]_vars

\* the caller's stop_serial() returned before the port was opened, and the
\* call of the finally clause came back without a close of the open handle
C13_Witness ==
    /\ pc = "done"
    /\ hist.stops >= 1
    /\ stop_pc["caller"] = "none"
    /\ is_open
    /\ \A t \in Threads : <<t, "close">> \notin hist.io

\* C14: while the worker has not been started, stop_serial() calls have
\* emitted no event, attempted no transport operation and raised nothing,
\* and the handle is still None.
C14_StopWhileIdle ==
    (pc = "idle" /\ hist.stops >= 1) =>
        /\ events = <<>>
        /\ hist.io = {}
        /\ caller_exc = "none"
        /\ ser = "None"

\* stop_serial() has run to its end on a worker that was never started
C14_Witness ==
    /\ pc = "idle"
    /\ hist.stops >= 1
    /\ stop_pc["caller"] = "none"
    /\ ~running

\* C15: when the only close() failures were the benign OSError "Bad file
\* descriptor", no exception has left stop_serial() into the caller, the
\* handle reference is None once no stop_serial() call is in progress, and
\* a finished run has emitted the final "Disconnected." as its last event.
C15_BenignCloseSwallowed ==
    hist.closeErr = "benign" =>
        /\ caller_exc = "none"
        /\ (\A t \in Threads : stop_pc[t] = "none") => ser = "None"
        /\ pc = "done" => /\ events # <<>>
                          /\ events[Len(events)] = Disconnected

\* the close() of the finally clause raised the benign error and the run
\* has finished
C15_Witness ==
    /\ hist.closeErr = "benign"
    /\ pc = "done"
    /\ exc = "none"
    /\ <<"worker", "close">> \in hist.io
    /\ <<"caller", "close">> \notin hist.io

\* C16: when a close() has failed with anything but the benign error, no
\* exception has left stop_serial() into the caller and a finished run has
\* still emitted the final "Disconnected." as its last event.
C16_CloseFailureSurfaced ==
    hist.closeErr = "other" =>
        /\ caller_exc = "none"
        /\ pc = "done" => /\ events # <<>>
                          /\ events[Len(events)] = Disconnected

IsSuffix(a, b) ==
    Len(a) <= Len(b) /\ a = SubSeq(b, Len(b) - Len(a) + 1, Len(b))

\* C17: whatever the interleaving of send_data with the worker's loop, the
\* queue is always the tail of what was enqueued, the frames written are
\* the head of it with at most the one popped frame in between (in flight,
\* or dropped by a failed write), and the queue loses an element only by
\* the worker's pop(0) of line 73.
C17_NoLossNoDuplicate ==
    /\ [](LET popped == Len(enqueued) - Len(send_queue)
          IN  /\ IsSuffix(send_queue, enqueued)
              /\ IsPrefix(wire, enqueued)
              /\ Len(wire) <= popped
              /\ popped <= Len(wire) + 1
              /\ pc = "write" => /\ popped = Len(wire) + 1
                                 /\ data_to_send = enqueued[popped]
              /\ pc = "echo" => /\ popped = Len(wire)
                                /\ data_to_send = wire[Len(wire)])
    /\ [][ send_queue' # send_queue =>
              \/ /\ pc = "write_if"
                 /\ send_queue # <<>>
                 /\ send_queue' = Tail(send_queue)
                 /\ data_to_send' = Head(send_queue)
              \/ /\ Len(send_queue') = Len(send_queue) + 1
                 /\ SubSeq(send_queue', 1, Len(send_queue)) = send_queue
         ]_vars

\* the caller's command was queued behind INIT_CHECK while the worker was
\* draining, and both were written
C17_Witness ==
    /\ Len(wire) = 2
    /\ wire[1] = Frame(INIT_CHECK)
    /\ hist.sends >= 1
    /\ send_queue = <<>>

\* C18: send_data can be called wherever run() stands, and the call appends
\* one frame, the UTF-8 bytes of the command followed by a single LF, at
\* the tail of the queue and leaves the frames already queued, the run
\* flag, the handle and the worker's position as they were.
C18_SendDataAppendsFrame ==
    /\ []((hist.sends < MaxSends /\ CallerFree) => ENABLED SendData)
    /\ [][ hist'.sends # hist.sends =>
              LET data == CmdScript[(hist.sends % Len(CmdScript)) + 1]
                  n == Len(send_queue)
                  frame == send_queue'[n + 1]
              IN  /\ Len(send_queue') = n + 1
                  /\ SubSeq(send_queue', 1, n) = send_queue
                  /\ frame = Utf8Encode(data) \o <<LF>>
                  /\ \A i \in 1..(Len(frame) - 1) : frame[i] # LF
                  /\ UNCHANGED <<running, ser, is_open, pc, events, wire>>
         ]_vars

\* send_data was called on a worker that was never started
C18_Witness == pc = "idle" /\ send_queue # <<>>

IsTx(e) == IsData(e) /\ e.tag = "TX"

\* the text of a frame without its terminator
FrameText(frame) == Utf8Decode(SubSeq(frame, 1, Len(frame) - 1))

C20_StopTerminates == (hist.stops >= 1 /\ pc # "idle") ~> (pc = "done")

\* a connected worker that met no failure was stopped and has finished
C20_Witness ==
    /\ pc = "done"
    /\ hist.stops >= 1
    /\ hist.open = "ok"
    /\ hist.failed = "none"
    /\ exc = "none"
    /\ \E i \in 1..Len(events) : events[i] = Connected

\* positions of run() inside the I/O loop, lines 48-83
LoopPcs == {"while_ser", "while_running", "while_isOpen", "poll", "readline",
            "decode", "write_if", "write", "echo", "sleep_tick"}

\* C21: whenever the worker is in its I/O loop with frames enqueued that
\* are not written yet, a moment comes when every frame enqueued so far has
\* been written, unless a stop_serial() call or a transport failure
\* intervenes.
C21_EnqueuedEventuallyWritten ==
    (pc \in LoopPcs /\ Len(wire) < Len(enqueued))
        ~> \/ Len(wire) = Len(enqueued)
           \/ hist.stops >= 1
           \/ hist.failed # "none"

\* the handshake and a caller's command were written by a worker that is
\* still connected
C21_Witness ==
    /\ Len(wire) = Len(enqueued)
    /\ Len(wire) >= 2
    /\ pc \in LoopPcs
    /\ hist.stops = 0
    /\ hist.failed = "none"

\* the lifecycle state of the worker, as a rank: 0 Idle, 1 Connecting (from
\* start() until the connected notification), 2 Connected, 3 Closing (the
\* finally clause), 4 Closed (run() has ended)
Lifecycle ==
    IF pc = "idle" THEN 0
    ELSE IF pc = "done" THEN 4
    ELSE IF pc \in {"finally", "stop_serial", "emit_disconnected"} THEN 3
    ELSE IF CountStatus(TRUE) > 0 THEN 2
    ELSE 1

C23_OpensOnce ==
    /\ [](CountStatus(TRUE) <= 1)
    /\ [][ /\ hist.open # "none" =>
                 /\ hist'.open = hist.open
                 /\ pc' # "open"
           /\ (OpenFailed \/ hist.failed # "none") =>
                 /\ pc' \in Teardown
                 /\ CountStatus(TRUE)' = CountStatus(TRUE)
         ]_vars

\* a connected worker met a read failure and has finished
C23_Witness ==
    /\ pc = "done"
    /\ hist.failed = "read"
    /\ CountStatus(TRUE) = 1

\* C25: whenever the worker polls, reads or writes (lines 51, 53, 75), the
\* handle it goes through is there and open: no stop_serial() call has
\* closed it or set self.ser to None.
C25_NoUseAfterStop ==
    [][ (pc \in {"poll", "readline", "write"} /\ pc' # pc) =>
            (ser = "handle" /\ is_open)
      ]_vars

\* C28: once a stop_serial() call on the caller's thread has returned, the
\* worker emits no connection_status(True, ...).
C28_NoConnectedAfterStop ==
    [][ (hist.stops >= 1 /\ stop_pc["caller"] = "none") =>
            CountStatus(TRUE)' = CountStatus(TRUE)
      ]_vars

\* C29: every event that follows a connection_status(False, ...) is itself
\* a connection_status(False, ...).
C29_NothingAfterDisconnect ==
    \A i \in 1..Len(events) : \A j \in (i + 1)..Len(events) :
        IsStatus(events[i], FALSE) => IsStatus(events[j], FALSE)

\* a frame was echoed, then a read failed, and the run has finished
C29_Witness ==
    /\ pc = "done"
    /\ hist.failed = "read"
    /\ \E i \in 1..Len(events) : IsData(events[i])
    /\ events[Len(events)] = Disconnected

\* C30: once a write has failed, the frame it was writing is the one popped
\* last and is not in the queue; the queue holds exactly the frames enqueued
\* behind it; and from then on nothing is written and the queue only grows
\* at its tail.
C30_FailedFrameDropped ==
    /\ [](hist.failed = "write" =>
             /\ Len(wire) = hist.wireAtFail
             /\ Len(enqueued) >= Len(wire) + 1
             /\ data_to_send = enqueued[Len(wire) + 1]
             /\ send_queue = SubSeq(enqueued, Len(wire) + 2, Len(enqueued)))
    /\ [][ hist.failed = "write" =>
              /\ wire' = wire
              /\ data_to_send' = data_to_send
              /\ IsPrefix(send_queue, send_queue')
         ]_vars

\* the write of the handshake failed with the caller's command behind it
C30_Witness ==
    /\ hist.failed = "write"
    /\ data_to_send = Frame(INIT_CHECK)
    /\ send_queue = <<Frame(CmdScript[1])>>

\* C24: every PING the keep-alive timer has enqueued went to a worker whose
\* connected event the window had handled and whose disconnected event it
\* had not.
C24_PingOnlyWhileConnected == mw_hist.pings \subseteq {"connected"}

\* C26: at most one worker thread is running.
C26_OneWorkerRunning == Cardinality({w \in Workers : isRunning(w)}) <= 1

\* C27: when the window handles a connection_status(False, ...) emitted by
\* a worker other than the one worker_thread references, it leaves
\* worker_thread and the keep-alive timer as they are.
C27_StaleStatusIgnored ==
    [][ ( /\ posted # <<>>
          /\ posted' = Tail(posted)
          /\ ~Head(posted).connected
          /\ worker_thread # 0
          /\ Head(posted).worker # worker_thread )
        => /\ worker_thread' = worker_thread
           /\ keep_alive_timer' = keep_alive_timer
      ]_vars


\* the queue history q holds the handshake frame
HasInitCheck(q) == \E i \in 1..Len(q) : q[i] = Frame(INIT_CHECK)

\* C31: INIT_CHECK is enqueued before the connected notification is emitted, so
\* a command that send_data enqueues once the notification has been emitted
\* goes behind INIT_CHECK in the queue, and frames are written in queue order:
\* every such command is written after INIT_CHECK.
C31_CommandsAfterInitCheck ==
    /\ [](CountStatus(TRUE) > 0 => HasInitCheck(enqueued))
    /\ [][(hist'.sends = hist.sends + 1 /\ CountStatus(TRUE) > 0)
             => /\ HasInitCheck(enqueued)
                /\ Len(enqueued') = Len(enqueued) + 1
                /\ SubSeq(enqueued', 1, Len(enqueued)) = enqueued
                /\ enqueued'[Len(enqueued')] # Frame(INIT_CHECK)]_vars
    /\ [](\A k \in 1..Len(wire) : k <= Len(enqueued) /\ wire[k] = enqueued[k])

\* the handshake and then a caller's command have both been written after the
\* connected notification
C31_Witness ==
    /\ CountStatus(TRUE) = 1
    /\ enqueued = <<Frame(INIT_CHECK), Frame(CmdScript[1])>>
    /\ wire = enqueued
    /\ events[1] = Connected


\* C32: send_command enqueues the command on the worker only when a worker
\* exists and its thread is running; otherwise no worker's queue changes and
\* the error "Cannot send '<code>'. Not connected." is logged.
C32_SendOnlyWhenRunning ==
    [][LET call == mw_hist'.commands = mw_hist.commands + 1
       IN  /\ (call /\ WorkerRunning)
                 => /\ mw_hist'.queued = mw_hist.queued \cup {worker_thread}
                    /\ mw_hist'.log = mw_hist.log
           /\ (call /\ ~WorkerRunning)
                 => /\ mw_hist'.queued = mw_hist.queued
                    /\ ButtonCommand \in mw_hist'.log
           /\ mw_hist'.queued # mw_hist.queued
                 => /\ WorkerRunning
                    /\ mw_hist'.queued = mw_hist.queued \cup {worker_thread}
           /\ mw_hist'.log # mw_hist.log => ~WorkerRunning]_vars

\* a button command was refused with the error in the log, and a command
\* was enqueued on a worker
C32_Witness ==
    /\ mw_hist.commands = 1
    /\ ButtonCommand \in mw_hist.log
    /\ mw_hist.queued # {}


\* C33: after any sequence of update_key calls, successful or rejected,
\* starting from the default map, no two commands are mapped to the same key.
C33_KeysDistinct ==
    \A i, j \in 1..Len(map) :
        i # j => map[i].key # map[j].key /\ map[i].command # map[j].command

\* a key has been moved to a new one, a command has been added, and the last
\* call asked for a key that another command holds
C33_Witness ==
    /\ get_key("A1") = <<66>>
    /\ Len(map) = Len(DEFAULT_MAP) + 1
    /\ key_call.raised = "ValueError"
    /\ key_call.new_key = <<88>>
    /\ key_call.command # "A2"

\* C34: when update_key is given a key that, upper-cased and trimmed, is not
\* exactly one alphanumeric character, or that a different command holds, it
\* raises ValueError and leaves the whole map unchanged.
C34_RejectLeavesMap ==
    [][(key_call' # key_call \/ map' # map)
         => LET key == Strip(Upper(key_call'.new_key))
                rejected ==
                    \/ Len(key) # 1
                    \/ ~IsAlnumChar(key[1])
                    \/ \E i \in 1..Len(map) :
                          /\ map[i].key = key
                          /\ map[i].command # key_call'.command
            IN  rejected => key_call'.raised = "ValueError" /\ map' = map]_vars

\* the map has been changed and the last call, with a key of two characters,
\* was rejected
C34_Witness ==
    /\ map # DEFAULT_MAP
    /\ key_call.raised = "ValueError"
    /\ Len(Strip(Upper(key_call.new_key))) = 2

\* C35: for every command c in the key map, after any sequence of update_key
\* calls, get_command_from_key(get_key(c)) returns c.
C35_ReverseLookup ==
    \A i \in 1..Len(map) :
        get_command_from_key(get_key(map[i].command)) = map[i].command

\* keys typed in lower case have been stored for a command of the default
\* map and for a new command
C35_Witness ==
    /\ get_key("A2") = <<66>>
    /\ get_key("A14") = <<201>>
    /\ get_command_from_key(<<233>>) = "A14"
    /\ get_key("A0") = <<83>>


\* C36: the core worker and the MasterFile worker are observationally
\* equivalent: same events, same writes, same final state of the transport.
\* Every run of the MasterFile worker (MasterSpec) that opened the port ends
\* with the port closed unless a close() failed; an equivalent worker ends
\* its runs in the same transport state, so the same holds of it: once run()
\* has finished after a successful open and no stop_serial() is in progress,
\* the port is closed or a close() of the handle has failed.
C36_EndsClosedAsMasterFile ==
    ( /\ pc = "done"
      /\ \A t \in Threads : stop_pc[t] = "none"
      /\ hist.open = "ok"
      /\ hist.closeErr = "none" )
    => ~is_open

====
